---------------------------- MODULE Spec2Model ----------------------------
(***************************************************************************)
(* Model of the SQL gateway run_sql_query (core/adk_config.py and the      *)
(* older single-file agent.py), the connection provider get_connection,    *)
(* and the two schema bootstrap scripts (core/db_operations.py and         *)
(* create_user_table.py), together with the part of the PostgreSQL store   *)
(* the gateway's contract depends on: tables with their declared           *)
(* constraints, SERIAL sequences, one transaction per connection,          *)
(* READ COMMITTED visibility, and rollback when a connection is closed     *)
(* without a commit.  The Streamlit application around the gateway         *)
(* (app.py main, initialize_adk, run_adk_async, display_chat_interface)    *)
(* is modelled as one browser session driving chat turns.                  *)
(***************************************************************************)
EXTENDS Integers, Sequences, FiniteSets, TLC

\* Number of connections get_connection may hand out in one behaviour.
MaxConns == 4

Sessions == {"s1", "s2"}
Names == {"Asha"}
Techs == {"Python"}
\* experience_years literals, as unscaled tenths (25 is NUMERIC 2.5)
Years == {25}

\* The two run_sql_query implementations of the repository.
Impls == {"core", "agent"}

VARIABLES
    schema,     \* which bootstrap created the tables: "none", "create_tables", "create_user_table"
    employees,  \* committed rows of employees, in heap order
    skills,     \* committed rows of employee_skills, in heap order
    empSeq,     \* last value of employees_id_seq
    skillSeq,   \* last value of employee_skills_id_seq
    nextConn,   \* number of connections handed out so far
    open,       \* connection handles that are open
    deleted,    \* history: employees removed by a committed DELETE, each with
                \* the skill rows that went with it
    sess,       \* per chat session: the frame of its run_sql_query call
    config,     \* the POSTGRES_* environment at import: "complete" or "missing"
    boot,       \* the last run of a schema bootstrap script and how it ended
    app         \* the Streamlit application: cache, session state, chat history

vars == <<schema, employees, skills, empSeq, skillSeq, nextConn, open, deleted, sess,
          config, boot, app>>

-----------------------------------------------------------------------------
\* Python values as the driver hands them over: a type tag and a payload.

PyInt(n) == [t |-> "int", s |-> "", n |-> n]
PyStr(x) == [t |-> "str", s |-> x, n |-> 0]
PyDecimal(tenths) == [t |-> "Decimal", s |-> "", n |-> tenths]
PyFloat(tenths) == [t |-> "float", s |-> "", n |-> tenths]

\* conn before get_connection returned: None in core/adk_config.py (line 49),
\* an unbound local in agent.py (no assignment before the try).
ConnNone == 0
ConnUnbound == -1

\* SQL NULL in employee_skills.employee_id (ids from SERIAL start at 1)
NullId == 0

Range(f) == {f[i] : i \in DOMAIN f}

RECURSIVE SelectSeq2(_, _, _)
\* the subsequence of rows whose field fld lies in set S
SelectSeq2(rows, fld, S) ==
    IF rows = <<>> THEN <<>>
    ELSE IF Head(rows)[fld] \in S
         THEN <<Head(rows)>> \o SelectSeq2(Tail(rows), fld, S)
         ELSE SelectSeq2(Tail(rows), fld, S)

-----------------------------------------------------------------------------
\* SQL statements the agent may send (arbitrary text in the code; these are
\* the statement shapes of the agent instruction and of the scenarios).

Queries ==
    [op : {"InsEmp", "InsEmpRet", "SelEmp", "DelEmp"}, name : Names, emp : {0}, tech : {""}, years : {0}]
    \cup [op : {"InsSkill"}, name : {""}, emp : {NullId} \cup 1..MaxConns, tech : Techs, years : Years]
    \cup [op : {"SelSkills"}, name : {""}, emp : 1..MaxConns, tech : {""}, years : {0}]
    \cup [op : {"SelJoin"}, name : {""}, emp : {0}, tech : {""}, years : {0}]

NoQuery == [op |-> "", name |-> "", emp |-> 0, tech |-> "", years |-> 0]

\* what one statement did inside its still open transaction
NoEff == [insEmp |-> <<>>, insSkill |-> <<>>, delEmp |-> {}, delSkill |-> {}]

\* the cursor after execute: description (None or column names), the rows
\* fetchall will return, rowcount
NoCur == [hasDesc |-> FALSE, columns |-> <<>>, rows |-> <<>>, rowcount |-> -1]

-----------------------------------------------------------------------------
\* The store: what PostgreSQL does with one statement under the schema the
\* bootstrap declared.

\* employees.name is UNIQUE only in the schema of create_tables
NameUnique == schema = "create_tables"

\* UNIQUE (employee_id, tech) exists only in the schema of create_tables
PairUnique == schema = "create_tables"

EmpIds(rows) == {rows[i].id : i \in DOMAIN rows}

IdsNamed(n) == {employees[i].id : i \in {j \in DOMAIN employees : employees[j].name = n}}

SkillIdsOf(emps) == {skills[i].id : i \in {j \in DOMAIN skills : skills[j].employee_id \in emps}}

HasPair(e, t) == \E i \in DOMAIN skills : skills[i].employee_id = e /\ skills[i].tech = t

EmpNameOf(e) == (CHOOSE r \in Range(employees) : r.id = e).name

Failed(text) == [err |-> text, cur |-> NoCur, eff |-> NoEff]

Done(cur, eff) == [err |-> "", cur |-> cur, eff |-> eff]

\* INSERT INTO employees(name) VALUES (n) [RETURNING id]
ExecInsEmp(n, returning) ==
    LET id == empSeq + 1 IN
    IF NameUnique /\ IdsNamed(n) # {}
    THEN Failed("UniqueViolation: employees_name_key")
    ELSE Done([hasDesc |-> returning,
               columns |-> IF returning THEN <<"id">> ELSE <<>>,
               rows |-> IF returning THEN <<(<<PyInt(id)>>)>> ELSE <<>>,
               rowcount |-> 1],
              [NoEff EXCEPT !.insEmp = <<[id |-> id, name |-> n]>>])

\* SELECT name FROM employees WHERE name = n
ExecSelEmp(n) ==
    LET hit == SelectSeq2(employees, "name", {n}) IN
    Done([hasDesc |-> TRUE, columns |-> <<"name">>,
          rows |-> [i \in 1..Len(hit) |-> <<PyStr(hit[i].name)>>],
          rowcount |-> Len(hit)], NoEff)

\* DELETE FROM employees WHERE name = n, without the referential action (the
\* delete a column lacking ON DELETE CASCADE would allow if nothing checked it)
ExecDelEmpNoCascade(n) ==
    LET gone == IdsNamed(n) IN
    Done([hasDesc |-> FALSE, columns |-> <<>>, rows |-> <<>>, rowcount |-> Cardinality(gone)],
         [NoEff EXCEPT !.delEmp = gone])

\* DELETE FROM employees WHERE name = n; employee_id REFERENCES employees(id)
\* ON DELETE CASCADE (both bootstraps) removes the referencing skill rows in
\* the same statement; rowcount counts the employees rows only
ExecDelEmp(n) ==
    LET gone == IdsNamed(n) IN
    Done([hasDesc |-> FALSE, columns |-> <<>>, rows |-> <<>>, rowcount |-> Cardinality(gone)],
         [NoEff EXCEPT !.delEmp = gone, !.delSkill = SkillIdsOf(gone)])

\* INSERT INTO employee_skills(employee_id, tech, experience_years) VALUES (e, t, y)
\* employee_id is declared INT REFERENCES employees(id) without NOT NULL: a
\* NULL passes the foreign key check and never collides under UNIQUE
ExecInsSkill(e, t, y) ==
    LET id == skillSeq + 1 IN
    IF PairUnique /\ e # NullId /\ HasPair(e, t)
    THEN Failed("UniqueViolation: employee_skills_employee_id_tech_key")
    ELSE IF e # NullId /\ e \notin EmpIds(employees)
    THEN Failed("ForeignKeyViolation: employee_skills_employee_id_fkey")
    ELSE Done([hasDesc |-> FALSE, columns |-> <<>>, rows |-> <<>>, rowcount |-> 1],
              [NoEff EXCEPT !.insSkill =
                  <<[id |-> id, employee_id |-> e, tech |-> t, experience_years |-> y]>>])

\* SELECT tech, experience_years FROM employee_skills WHERE employee_id = e
ExecSelSkills(e) ==
    LET hit == SelectSeq2(skills, "employee_id", {e}) IN
    Done([hasDesc |-> TRUE, columns |-> <<"tech", "experience_years">>,
          rows |-> [i \in 1..Len(hit) |->
                       <<PyStr(hit[i].tech), PyDecimal(hit[i].experience_years)>>],
          rowcount |-> Len(hit)], NoEff)

\* SELECT e.id, e.name, s.id, s.tech, s.experience_years
\*   FROM employees e JOIN employee_skills s ON s.employee_id = e.id
ExecSelJoin ==
    LET hit == SelectSeq2(skills, "employee_id", EmpIds(employees)) IN
    Done([hasDesc |-> TRUE,
          columns |-> <<"id", "name", "id", "tech", "experience_years">>,
          rows |-> [i \in 1..Len(hit) |->
                       <<PyInt(hit[i].employee_id), PyStr(EmpNameOf(hit[i].employee_id)),
                         PyInt(hit[i].id), PyStr(hit[i].tech),
                         PyDecimal(hit[i].experience_years)>>],
          rowcount |-> Len(hit)], NoEff)

\* cur.execute(query) as the server answers it
ExecStatement(q) ==
    IF schema = "none" THEN Failed("UndefinedTable: relation does not exist")
    ELSE CASE q.op = "InsEmp" -> ExecInsEmp(q.name, FALSE)
           [] q.op = "InsEmpRet" -> ExecInsEmp(q.name, TRUE)
           [] q.op = "SelEmp" -> ExecSelEmp(q.name)
           [] q.op = "DelEmp" -> ExecDelEmp(q.name)
           [] q.op = "InsSkill" -> ExecInsSkill(q.emp, q.tech, q.years)
           [] q.op = "SelSkills" -> ExecSelSkills(q.emp)
           [] OTHER -> ExecSelJoin

\* nextval() is taken when the row is formed, whether or not the insert
\* survives; sequences are not rolled back
UsesEmpSeq(q) == schema # "none" /\ q.op \in {"InsEmp", "InsEmpRet"}

UsesSkillSeq(q) == schema # "none" /\ q.op = "InsSkill"

-----------------------------------------------------------------------------
\* Row locks: a statement waits while another open transaction holds a
\* conflicting uncommitted change (the guard of Execute).

OthersEff(s) == {sess[o].eff : o \in {x \in Sessions \ {s} : ~sess[x].committed}}

Blocked(s, q) ==
    \E e \in OthersEff(s) :
        \/ /\ q.op \in {"InsEmp", "InsEmpRet"}
           /\ NameUnique
           /\ \/ \E r \in Range(e.insEmp) : r.name = q.name
              \/ IdsNamed(q.name) \cap e.delEmp # {}
        \/ /\ q.op = "DelEmp"
           /\ \/ IdsNamed(q.name) \cap e.delEmp # {}
              \/ \E r \in Range(e.insSkill) : r.employee_id \in IdsNamed(q.name)
        \/ /\ q.op = "InsSkill"
           /\ \/ q.emp \in e.delEmp
              \/ PairUnique /\ q.emp # NullId
                            /\ \E r \in Range(e.insSkill) :
                                  r.employee_id = q.emp /\ r.tech = q.tech

RECURSIVE DropIds(_, _)
\* rows without those whose id is in gone, order kept
DropIds(rows, gone) ==
    IF rows = <<>> THEN <<>>
    ELSE IF Head(rows).id \in gone
         THEN DropIds(Tail(rows), gone)
         ELSE <<Head(rows)>> \o DropIds(Tail(rows), gone)

-----------------------------------------------------------------------------
\* run_sql_query: the pure parts

\* convert_value without the isinstance branch: every value as it came
convert_value_as_is(value) == value

\* convert_value (adk_config.py) / the conditional expression of convert_row
\* (agent.py): float(value) for a Decimal, the value itself otherwise
convert_value(value) ==
    IF value.t = "Decimal" THEN PyFloat(value.n) ELSE value

\* d[k] = v on a Python dict kept as its items in insertion order
DictSet(d, k, v) ==
    IF \E i \in DOMAIN d : d[i][1] = k
    THEN [i \in DOMAIN d |-> IF d[i][1] = k THEN <<k, v>> ELSE d[i]]
    ELSE Append(d, <<k, v>>)

RECURSIVE DictOfPairs(_, _, _)
\* {col: convert_value(val) for col, val in zip(columns, row)}, built left
\* to right; zip stops at the shorter of the two
DictOfPairs(columns, row, d) ==
    IF columns = <<>> \/ row = <<>> THEN d
    ELSE DictOfPairs(Tail(columns), Tail(row),
                     DictSet(d, Head(columns), convert_value(Head(row))))

convert_row(columns, row) == DictOfPairs(columns, row, <<>>)

\* a test that sends every executed statement on to conn.commit()
HasDescriptionNever(cur) == FALSE

\* if cur.description:
HasDescription(cur) == cur.hasDesc

\* [convert_row(row) for row in rows]
ConvertRows(cur) == [i \in 1..Len(cur.rows) |-> convert_row(cur.columns, cur.rows[i])]

NoRet == [status |-> "", message |-> "", results |-> <<>>]

\* {"status": "success", "results": result}
SuccessResults(result) == [status |-> "success", message |-> "", results |-> result]

\* the success message built from the number of fetched rows (none, for a
\* statement without a result set) instead of cur.rowcount
SuccessMessageFetched(rowcount) ==
    [status |-> "success", message |-> ToString(0) \o " rows affected.", results |-> <<>>]

\* {"status": "success", "message": f"{cur.rowcount} rows affected."}
SuccessMessage(rowcount) ==
    [status |-> "success", message |-> ToString(rowcount) \o " rows affected.", results |-> <<>>]

\* {"status": "error", "message": str(e)}
ErrorEnvelope(e) == [status |-> "error", message |-> e, results |-> <<>>]

\* a finally clause that never reaches conn.close()
ShouldCloseNever(conn) == FALSE

\* finally: if conn:   (a psycopg2 connection is truthy, None is not)
ShouldClose(conn) == conn # ConnNone

\* conn at the moment get_connection raised: None in adk_config.py (line
\* 49), never assigned in agent.py
ConnBeforeConnect(impl) == IF impl = "core" THEN ConnNone ELSE ConnUnbound

\* get_connection with a second psycopg2.connect after a failed first one
get_connection_retry(reachable) ==
    [attempts |-> IF reachable THEN 1 ELSE 2,
     excType |-> IF reachable THEN "" ELSE "OperationalError",
     exc |-> IF reachable THEN "" ELSE "OperationalError: could not connect"]

\* get_connection(): one psycopg2.connect(host=DB_HOST, ...) inside try; the
\* except clause prints, logs and re-raises with a bare `raise`, so the
\* caller gets the driver's own exception (psycopg2.OperationalError for an
\* unreachable server or rejected credentials)
get_connection(reachable) ==
    [attempts |-> 1,
     excType |-> IF reachable THEN "" ELSE "OperationalError",
     exc |-> IF reachable THEN "" ELSE "OperationalError: could not connect"]

Idle ==
    [pc |-> "idle", query |-> NoQuery, conn |-> ConnNone, cur |-> NoCur, eff |-> NoEff,
     connAttempts |-> 0, excType |-> "", executed |-> FALSE, commitCalls |-> 0,
     exc |-> "", committed |-> FALSE, closeCalls |-> 0,
     ret |-> NoRet, outcome |-> "", raised |-> ""]

-----------------------------------------------------------------------------
\* Schema bootstrap

NoBoot ==
    [script |-> "", existed |-> FALSE, fault |-> "", error |-> "", outcome |-> "", raised |-> ""]

\* the store answers a connection attempt only when every parameter is there
Reachable(fault) == fault # "connect" /\ config = "complete"

\* what went wrong around the script in this run, if anything
FaultMet(fault) == IF Reachable(fault) THEN fault ELSE "connect"

\* create_tables(): conn = curr = None; get_connection(); CREATE TABLE IF NOT
\* EXISTS for both tables, with the UNIQUE constraints; one commit.  The
\* except clause prints and logs whatever was raised and does not re-raise;
\* finally closes what was opened, and the function returns None.
create_tables(fault) ==
    LET g == get_connection(Reachable(fault))
        error == IF g.exc # "" THEN g.exc
                 ELSE IF fault = "execute" THEN "OperationalError: execute"
                 ELSE ""
    IN
    /\ schema' = IF error = "" /\ schema = "none" THEN "create_tables" ELSE schema
    /\ boot' = [script |-> "create_tables", existed |-> schema # "none",
                fault |-> FaultMet(fault),
                error |-> error, outcome |-> "returned", raised |-> ""]
    /\ UNCHANGED <<employees, skills, empSeq, skillSeq, nextConn, open, deleted, sess,
                   config, app>>

\* create_user_table(): psycopg2.connect inside try with no conn or curr
\* bound before it; one execute of CREATE TABLE IF NOT EXISTS employees (no
\* UNIQUE) and CREATE TABLE employee_skills (no IF NOT EXISTS, no UNIQUE):
\* the second statement fails when the table exists and nothing is
\* committed.  The except clause prints the error; finally tests `curr`,
\* which is unbound when connect raised.
create_user_table(fault) ==
    LET error == IF ~Reachable(fault) THEN "OperationalError: could not connect"
                 ELSE IF fault = "execute" THEN "OperationalError: execute"
                 ELSE IF schema # "none"
                      THEN "DuplicateTable: relation employee_skills already exists"
                 ELSE ""
    IN
    /\ schema' = IF error = "" THEN "create_user_table" ELSE schema
    /\ boot' = [script |-> "create_user_table", existed |-> schema # "none",
                fault |-> FaultMet(fault),
                error |-> error,
                outcome |-> IF Reachable(fault) THEN "returned" ELSE "raised",
                raised |-> IF Reachable(fault) THEN "" ELSE "UnboundLocalError: curr"]
    /\ UNCHANGED <<employees, skills, empSeq, skillSeq, nextConn, open, deleted, sess,
                   config, app>>

-----------------------------------------------------------------------------
\* run_sql_query, step by step

\* entry, conn = get_connection(); on failure the except clause builds the
\* error envelope and control reaches finally.  The connection parameters
\* are the module-level os.getenv values: with one of them missing the
\* driver is handed None and no connection to the store comes about.
Connect(s, impl, q, ok) ==
    LET g == get_connection(ok) IN
    /\ sess[s].pc = "idle"
    /\ q.emp <= empSeq
    /\ ok => config = "complete"
    /\ IF g.exc = ""
       THEN /\ nextConn < MaxConns
            /\ nextConn' = nextConn + 1
            /\ open' = open \cup {nextConn + 1}
            /\ sess' = [sess EXCEPT ![s] =
                   [Idle EXCEPT !.pc = "connected", !.query = q, !.conn = nextConn + 1,
                                !.connAttempts = g.attempts]]
       ELSE /\ UNCHANGED <<nextConn, open>>
            /\ sess' = [sess EXCEPT ![s] =
                   [Idle EXCEPT !.pc = "finally", !.query = q,
                                !.conn = ConnBeforeConnect(impl),
                                !.connAttempts = g.attempts,
                                !.excType = g.excType,
                                !.exc = g.exc,
                                !.ret = ErrorEnvelope(g.exc)]]
    /\ UNCHANGED <<schema, employees, skills, empSeq, skillSeq, deleted, config, boot, app>>

\* with conn.cursor() as cur: cur.execute(query); then the read branch
\* (fetchall, convert, return) or the hand-over to conn.commit()
Execute(s, fault) ==
    LET f == sess[s]
        r == ExecStatement(f.query)
        raise(e) == [f EXCEPT !.pc = "finally", !.exc = e, !.ret = ErrorEnvelope(e)]
    IN
    /\ f.pc = "connected"
    /\ IF fault = "cursor"
       THEN /\ sess' = [sess EXCEPT ![s] = raise("InterfaceError: cursor")]
            /\ UNCHANGED <<empSeq, skillSeq>>
       ELSE IF fault = "execute"
       THEN /\ sess' = [sess EXCEPT ![s] = raise("OperationalError: execute")]
            /\ UNCHANGED <<empSeq, skillSeq>>
       ELSE /\ ~Blocked(s, f.query)
            /\ fault = "fetch" => r.err = "" /\ HasDescription(r.cur)
            /\ empSeq' = IF UsesEmpSeq(f.query) THEN empSeq + 1 ELSE empSeq
            /\ skillSeq' = IF UsesSkillSeq(f.query) THEN skillSeq + 1 ELSE skillSeq
            /\ sess' = [sess EXCEPT ![s] =
                   IF r.err # "" THEN raise(r.err)
                   ELSE IF ~HasDescription(r.cur)
                   THEN [f EXCEPT !.pc = "commit", !.cur = r.cur, !.eff = r.eff,
                                  !.executed = TRUE]
                   ELSE IF fault = "fetch"
                   THEN [raise("OperationalError: fetchall") EXCEPT
                             !.cur = r.cur, !.eff = r.eff, !.executed = TRUE]
                   ELSE [f EXCEPT !.pc = "finally", !.cur = r.cur, !.eff = r.eff,
                                  !.executed = TRUE,
                                  !.ret = SuccessResults(ConvertRows(r.cur))]]
    /\ UNCHANGED <<schema, employees, skills, nextConn, open, deleted, config, boot, app>>

\* a commit that publishes the transaction even when it goes on to raise
RowsAfterCommitAnyway(rows, gone, added, ok) == DropIds(rows, gone) \o added

\* the table after conn.commit(): the transaction's deletes and inserts are
\* published when commit returns; a commit that raises publishes nothing
RowsAfterCommit(rows, gone, added, ok) ==
    IF ok THEN DropIds(rows, gone) \o added ELSE rows

\* conn.commit() and the success message; a failing commit goes to except
Commit(s, ok) ==
    LET f == sess[s] IN
    /\ f.pc = "commit"
    /\ employees' = RowsAfterCommit(employees, f.eff.delEmp, f.eff.insEmp, ok)
    /\ skills' = RowsAfterCommit(skills, f.eff.delSkill, f.eff.insSkill, ok)
    /\ IF ok
       THEN /\ deleted' = deleted \cup
                   {[emp |-> e, skills |-> SkillIdsOf({e}) \cap f.eff.delSkill] : e \in f.eff.delEmp}
            /\ sess' = [sess EXCEPT ![s] =
                   [f EXCEPT !.pc = "finally", !.committed = TRUE,
                             !.commitCalls = f.commitCalls + 1,
                             !.ret = SuccessMessage(f.cur.rowcount)]]
       ELSE /\ UNCHANGED deleted
            /\ sess' = [sess EXCEPT ![s] =
                   [f EXCEPT !.pc = "finally", !.exc = "OperationalError: commit",
                             !.commitCalls = f.commitCalls + 1,
                             !.ret = ErrorEnvelope("OperationalError: commit")]]
    /\ UNCHANGED <<schema, empSeq, skillSeq, nextConn, open, config, boot, app>>

\* finally: if conn: conn.close().  An exception here (close raising, or
\* the unbound conn of agent.py) replaces the pending return value.  close()
\* gives the handle up before it reports anything, and the transaction of a
\* connection closed without commit is rolled back.
Finally(s, closeOk) ==
    LET f == sess[s] IN
    /\ f.pc = "finally"
    /\ IF f.conn = ConnUnbound
       THEN /\ closeOk
            /\ UNCHANGED open
            /\ sess' = [sess EXCEPT ![s] =
                   [f EXCEPT !.pc = "done", !.outcome = "raised",
                             !.raised = "UnboundLocalError: conn"]]
       ELSE IF ShouldClose(f.conn)
       THEN /\ open' = open \ {f.conn}
            /\ sess' = [sess EXCEPT ![s] =
                   [f EXCEPT !.pc = "done", !.eff = NoEff,
                             !.closeCalls = f.closeCalls + 1,
                             !.outcome = IF closeOk THEN "returned" ELSE "raised",
                             !.raised = IF closeOk THEN "" ELSE "OperationalError: close"]]
       ELSE /\ closeOk
            /\ UNCHANGED open
            /\ sess' = [sess EXCEPT ![s] = [f EXCEPT !.pc = "done", !.outcome = "returned"]]
    /\ UNCHANGED <<schema, employees, skills, empSeq, skillSeq, nextConn, deleted, config, boot, app>>

\* the caller has the envelope (or the exception); the frame is gone
Return(s) ==
    /\ sess[s].pc = "done"
    /\ sess' = [sess EXCEPT ![s] = Idle]
    /\ UNCHANGED <<schema, employees, skills, empSeq, skillSeq, nextConn, open, deleted, config, boot, app>>

-----------------------------------------------------------------------------
\* The Streamlit application: one browser session, its st.session_state, the
\* process-wide st.cache_resource entry of initialize_adk, the runner's
\* InMemorySessionService and the chat history.

\* Number of prompts the user submits in one behaviour.
MaxTurns == 2

SessionNotFound == "Error: ADK session not found. Please refresh the page."
NoFinalResponse == "[Agent encountered an issue and did not produce a final response]"
NoTextOutput == "[Agent finished but produced no text output]"
Apology == "Sorry, an error occurred while processing your request: RuntimeError"
FinalText == "Asha has 2.5 years of Python."

\* what runner.run_async may do in one turn: yield a final response whose
\* first part carries text; yield one without content or parts; yield one
\* whose first part has the attribute text set to None (a part that is not
\* text); end without a final response; raise
AgentEvents == {"text", "no_content", "text_none", "no_final", "raises"}

NoRun == [session |-> FALSE, ev |-> "", outcome |-> "", value |-> "", exc |-> ""]

\* initialize_adk(), the body that runs when the cache has no entry: a new
\* InMemorySessionService and Runner, then either a new session id (stored
\* in st.session_state before create_session; a failing create_session is
\* re-raised) or the id already in st.session_state (the new service has no
\* session under it: adk_config.py recreates it and only logs a failure;
\* agent.py tests the un-awaited coroutine of get_session, which is truthy,
\* and recreates nothing)
initialize_adk(impl, hasId, createOk) ==
    IF ~hasId
    THEN [session |-> createOk, raised |-> ~createOk]
    ELSE IF impl = "core"
    THEN [session |-> createOk, raised |-> FALSE]
    ELSE [session |-> FALSE, raised |-> FALSE]

\* run_adk_async: get_session, the loop over runner.run_async inside try,
\* the two prints and the return.  A final_response_text of None makes
\* final_response_text[:150] in the last print raise TypeError after the
\* try statement.
run_adk_async(session, ev) ==
    LET returned(text) ==
            [session |-> session, ev |-> ev, outcome |-> "returned", value |-> text, exc |-> ""]
    IN
    IF ~session THEN returned(SessionNotFound)
    ELSE CASE ev = "text" -> returned(FinalText)
           [] ev = "no_content" -> returned(NoTextOutput)
           [] ev = "no_final" -> returned(NoFinalResponse)
           [] ev = "raises" -> returned(Apology)
           [] OTHER -> [session |-> session, ev |-> ev, outcome |-> "raised", value |-> "",
                        exc |-> "TypeError: NoneType object is not subscriptable"]

\* agent_response after the try statement of display_chat_interface: what
\* run_adk_sync returned, or error_msg when it raised (the f-string's
\* leading warning sign is left out of the text)
agent_response(r) ==
    IF r.outcome = "raised" THEN "Error: " \o r.exc ELSE r.value

\* the assistant entry appended inside the try, after run_adk_sync returned
AppendAssistantInTry(history, r) ==
    IF r.outcome = "raised" THEN history
    ELSE Append(history, [role |-> "assistant", content |-> agent_response(r)])

\* st.session_state[message_key].append({"role": "assistant", "content": agent_response})
AppendAssistant(history, r) ==
    Append(history, [role |-> "assistant", content |-> agent_response(r)])

\* {"role": "user", "content": user_prompt}
UserEntry == [role |-> "user", content |-> "prompt"]

NoApp ==
    [impl |-> "", cached |-> FALSE, hasId |-> FALSE, session |-> FALSE, init |-> "",
     history |-> <<>>, turn |-> "idle", run |-> NoRun]

\* one run of the script down to display_chat_interface with no prompt
\* submitted: initialize_adk(), and st.error + st.stop when it raised.  With
\* a cache entry initialize_adk hands that entry back and nothing changes,
\* so the step is taken only while there is none.
main(impl, createOk) ==
    /\ app.impl \in {"", impl}
    /\ app.turn = "idle"
    /\ ~app.cached
    /\ LET r == initialize_adk(impl, app.hasId, createOk) IN
       app' = [app EXCEPT !.impl = impl, !.hasId = TRUE, !.session = r.session,
                          !.cached = ~r.raised,
                          !.init = IF r.raised THEN "stopped" ELSE "ok"]
    /\ UNCHANGED <<schema, employees, skills, empSeq, skillSeq, nextConn, open, deleted,
                   sess, config, boot>>

\* the st.cache_resource entry is dropped (cache cleared, script restarted)
\* while st.session_state lives on; the runner and its sessions go with it
clear_cache ==
    /\ app.cached
    /\ app.turn = "idle"
    /\ app' = [app EXCEPT !.cached = FALSE, !.session = FALSE, !.init = ""]
    /\ UNCHANGED <<schema, employees, skills, empSeq, skillSeq, nextConn, open, deleted,
                   sess, config, boot>>

\* display_chat_interface with a prompt from st.chat_input: the user entry
\* is appended and run_adk_sync is entered
Submit ==
    /\ app.init = "ok"
    /\ app.turn = "idle"
    /\ Len(app.history) < 2 * MaxTurns
    /\ app' = [app EXCEPT !.history = Append(@, UserEntry),
                          !.turn = "running", !.run = NoRun]
    /\ UNCHANGED <<schema, employees, skills, empSeq, skillSeq, nextConn, open, deleted,
                   sess, config, boot>>

\* run_adk_sync comes back (or raises), and the assistant entry is appended
Respond(ev) ==
    /\ app.turn = "running"
    /\ sess["s1"].pc = "idle"
    /\ LET r == run_adk_async(app.session, ev) IN
       app' = [app EXCEPT !.history = AppendAssistant(@, r), !.turn = "idle", !.run = r]
    /\ UNCHANGED <<schema, employees, skills, empSeq, skillSeq, nextConn, open, deleted,
                   sess, config, boot>>

-----------------------------------------------------------------------------

Init ==
    /\ schema = "none"
    /\ employees = <<>>
    /\ skills = <<>>
    /\ empSeq = 0
    /\ skillSeq = 0
    /\ nextConn = 0
    /\ open = {}
    /\ deleted = {}
    /\ sess = [s \in Sessions |-> Idle]
    /\ config \in {"complete", "missing"}
    /\ boot = NoBoot
    /\ app = NoApp

BootFaults == {"none", "connect", "execute"}

\* the bootstrap scripts run with nothing failing around them (their
\* failure points are open in NextApp)
Bootstrap ==
    \/ create_tables("none")
    \/ create_user_table("none")

\* One chat session issuing its tool calls one after the other, every
\* failure point open.
Next ==
    \/ Bootstrap
    \/ \E impl \in Impls, q \in Queries, ok \in BOOLEAN : Connect("s1", impl, q, ok)
    \/ \E fault \in {"none", "cursor", "execute", "fetch"} : Execute("s1", fault)
    \/ \E ok \in BOOLEAN : Commit("s1", ok)
    \/ \E closeOk \in BOOLEAN : Finally("s1", closeOk)
    \/ Return("s1")

Spec == Init /\ [][Next]_vars

\* Two chat sessions writing at the same time; their steps interleave and
\* the store's constraints and row locks are all that orders them.
WriteQueries == {q \in Queries : q.op \in {"InsEmp", "DelEmp", "InsSkill"}}

NextConcurrent ==
    \/ Bootstrap
    \/ \E s \in Sessions, q \in WriteQueries : Connect(s, "core", q, TRUE)
    \/ \E s \in Sessions : Execute(s, "none")
    \/ \E s \in Sessions, ok \in BOOLEAN : Commit(s, ok)
    \/ \E s \in Sessions : Finally(s, TRUE)
    \/ \E s \in Sessions : Return(s)

SpecConcurrent == Init /\ [][NextConcurrent]_vars

\* The deployed application: the bootstrap scripts with their failure
\* points, then chat turns; while a turn runs the agent may call the
\* gateway with a read.
ToolQueries == {q \in Queries : q.op = "SelEmp"}

NextApp ==
    \/ \E fault \in BootFaults : app.init = "" /\ create_tables(fault)
    \/ \E fault \in BootFaults : app.init = "" /\ create_user_table(fault)
    \/ \E impl \in Impls, createOk \in BOOLEAN : main(impl, createOk)
    \/ clear_cache
    \/ Submit
    \/ \E ev \in AgentEvents : Respond(ev)
    \/ \E q \in ToolQueries, ok \in BOOLEAN :
          app.turn = "running" /\ app.session /\ Connect("s1", app.impl, q, ok)
    \/ Execute("s1", "none")
    \/ Finally("s1", TRUE)
    \/ Return("s1")

SpecApp == Init /\ [][NextApp]_vars

-----------------------------------------------------------------------------
\* Properties

InFlight(f) == f.pc \in {"connected", "commit", "finally"}

\* the call is over (the envelope is fixed once control is in finally)
AtExit(f) == f.pc \in {"finally", "done"}

Keys(d) == [i \in DOMAIN d |-> d[i][1]]

\* index of the last column carrying the name k
LastIndex(columns, k) ==
    CHOOSE j \in DOMAIN columns :
        columns[j] = k /\ \A m \in DOMAIN columns : columns[m] = k => m <= j

DeletedIds == {d.emp : d \in deleted}

\* C1: whatever fails inside the try block (get_connection, cursor creation,
\* execute, fetchall, commit), the finished call hands its caller an envelope
\* with status "success" or "error", the error envelope carrying the text of
\* the failure, and no exception escapes.  (close itself raising is C3.)
C1_AlwaysAnEnvelope ==
    \A s \in Sessions : LET f == sess[s] IN
        (f.pc = "done" /\ f.raised # "OperationalError: close") =>
            /\ f.outcome = "returned"
            /\ f.ret.status \in {"success", "error"}
            /\ f.exc # "" => (f.ret.status = "error" /\ f.ret.message = f.exc)

\* C2: an invocation that obtained a connection holds it open until finally,
\* has called close on it exactly once when it is over, on every exit path;
\* the handle is one get_connection handed out for this invocation alone;
\* every open connection belongs to an invocation still in its try block, so
\* none is open once the invocations are over.
C2_ConnectionClosedOnce ==
    /\ \A s \in Sessions : LET f == sess[s] IN
          f.conn > 0 =>
             /\ f.conn <= nextConn
             /\ \A o \in Sessions \ {s} : sess[o].conn # f.conn
             /\ IF f.pc = "done"
                THEN f.closeCalls = 1 /\ f.conn \notin open
                ELSE f.closeCalls = 0 /\ f.conn \in open
    /\ \A c \in open : \E s \in Sessions : sess[s].conn = c /\ InFlight(sess[s])

\* C2 witness: a second invocation whose execute raised is over, its
\* connection closed once and nothing left open
C2_Witness ==
    \E s \in Sessions : LET f == sess[s] IN
        /\ f.pc = "done" /\ f.conn = 2 /\ f.closeCalls = 1
        /\ f.exc = "OperationalError: execute"
        /\ open = {}

\* C3: when close raises after execute, fetchall or commit already failed,
\* the caller still gets the error envelope of the original failure.
C3_CloseDoesNotMask ==
    \A s \in Sessions : LET f == sess[s] IN
        (f.pc = "done" /\ f.closeCalls = 1 /\ f.exc # "") =>
            /\ f.outcome = "returned"
            /\ f.ret = [status |-> "error", message |-> f.exc, results |-> <<>>]

\* C4: a statement with a column description yields one dictionary per row
\* the store returned, in row order, the keys of each being exactly the
\* column list in order, one key per returned column.
C4_KeysAreTheColumns ==
    \A s \in Sessions : LET f == sess[s] IN
        (AtExit(f) /\ f.exc = "" /\ f.cur.hasDesc) =>
            /\ f.ret.status = "success"
            /\ Len(f.ret.results) = Len(f.cur.rows)
            /\ \A i \in DOMAIN f.ret.results : Keys(f.ret.results[i]) = f.cur.columns

\* C5 (as stated): a statement without a column description that executed
\* is committed and answered with exactly "<N> rows affected", N the
\* rowcount the store reported.
C5_MessageAsStated ==
    \A s \in Sessions : LET f == sess[s] IN
        (AtExit(f) /\ f.conn > 0 /\ f.exc = "" /\ ~f.cur.hasDesc) =>
            /\ f.committed
            /\ f.ret.status = "success"
            /\ f.ret.message = ToString(f.cur.rowcount) \o " rows affected"

\* C5 (amended): the same with the text the code produces, "<N> rows
\* affected." ending in a full stop; one inserted employee row gives
\* "1 rows affected."
C5_MessageWithFullStop ==
    \A s \in Sessions : LET f == sess[s] IN
        (AtExit(f) /\ f.conn > 0 /\ f.exc = "" /\ ~f.cur.hasDesc) =>
            /\ f.committed
            /\ f.ret.status = "success"
            /\ f.ret.results = <<>>
            /\ f.ret.message = ToString(f.cur.rowcount) \o " rows affected."
            /\ f.query.op \in {"InsEmp", "InsSkill"} => f.ret.message = "1 rows affected."
            /\ (f.query.op = "DelEmp" /\ f.pc = "finally") =>
                  f.cur.rowcount = Cardinality(f.eff.delEmp)
            /\ (f.pc = "done" /\ f.raised = "") => f.outcome = "returned"

\* C5 witness: an INSERT of one employee was committed and answered
C5_Witness ==
    \E s \in Sessions : LET f == sess[s] IN
        /\ f.pc = "done" /\ f.outcome = "returned" /\ f.query.op = "InsEmp"
        /\ f.committed /\ f.ret.message = "1 rows affected."

\* C6: a write that run_sql_query reports as success has been committed
\* when the call returns, so the row is there for the next call.
C6_SuccessMeansCommitted ==
    \A s \in Sessions : LET f == sess[s] IN
        (f.pc = "done" /\ f.outcome = "returned" /\ f.ret.status = "success"
            /\ f.query.op \in {"InsEmp", "InsEmpRet"}) =>
            /\ f.committed
            /\ IdsNamed(f.query.name) # {}

\* C7: after the schema bootstrap no two employees rows carry the same name,
\* and an INSERT that was answered with success put the only row of its
\* name there (the second INSERT of a name is answered with an error).
C7_NamesUnique ==
    /\ \A i, j \in DOMAIN employees :
          i # j => employees[i].name # employees[j].name
    /\ \A s \in Sessions : LET f == sess[s] IN
          (f.pc = "finally" /\ f.committed /\ f.query.op = "InsEmp") =>
              Cardinality(IdsNamed(f.query.name)) = 1

\* C8: after the schema bootstrap, under any interleaving of concurrent
\* sessions, no two employee_skills rows share (employee_id, tech).
C8_PairsUnique ==
    \A i, j \in DOMAIN skills :
        (i # j /\ skills[i].employee_id # NullId) =>
            <<skills[i].employee_id, skills[i].tech>> # <<skills[j].employee_id, skills[j].tech>>

\* C9: once a DELETE of an employee has been committed through the gateway,
\* no employee_skills row references that employee, and a query for that
\* employee's skills that follows returns zero rows.
C9_DeleteCascades ==
    /\ \A i \in DOMAIN skills : skills[i].employee_id \notin DeletedIds
    /\ \A s \in Sessions : LET f == sess[s] IN
          (AtExit(f) /\ f.query.op = "SelSkills" /\ f.query.emp \in DeletedIds
              /\ f.ret.status = "success") => f.ret.results = <<>>

\* C9 witness: an employee that had skill rows was deleted, and the query
\* for its skills came back empty
C9_Witness ==
    \E s \in Sessions, d \in deleted : LET f == sess[s] IN
        /\ d.skills # {}
        /\ f.pc = "done" /\ f.outcome = "returned"
        /\ f.query.op = "SelSkills" /\ f.query.emp = d.emp
        /\ f.ret = [status |-> "success", message |-> "", results |-> <<>>]

\* C10: in a results envelope every value is the store's value of the column
\* that supplies the key, as a float if the store returned a Decimal and
\* untouched otherwise; no Decimal and no string stands in for a Decimal.
C10_DecimalBecomesFloat ==
    \A s \in Sessions : LET f == sess[s] IN
        (AtExit(f) /\ f.ret.status = "success" /\ f.cur.hasDesc) =>
            \A i \in DOMAIN f.ret.results : \A p \in DOMAIN f.ret.results[i] :
                LET k == f.ret.results[i][p][1]
                    v == f.ret.results[i][p][2]
                    stored == f.cur.rows[i][LastIndex(f.cur.columns, k)]
                IN /\ v.t # "Decimal"
                   /\ stored.t = "Decimal" => (v.t = "float" /\ v.n = stored.n /\ v.s = "")
                   /\ stored.t # "Decimal" => v = stored

\* C10 witness: a skills query returned experience_years 2.5, a Decimal in
\* the store, as the float 2.5 next to an unchanged string
C10_Witness ==
    \E s \in Sessions : LET f == sess[s] IN
        /\ f.pc = "done" /\ f.query.op = "SelSkills"
        /\ f.cur.rows = <<(<<PyStr("Python"), PyDecimal(25)>>)>>
        /\ f.ret.results =
              <<(<< <<"tech", PyStr("Python")>>, <<"experience_years", PyFloat(25)>> >>)>>

\* the invocation asked get_connection for a connection and got none
ConnectFailed(f) == f.connAttempts > 0 /\ f.conn \notin 1..MaxConns

\* C11 (as stated): with the store unreachable or the credentials rejected,
\* get_connection makes a single connection attempt and its caller gets a
\* ConnectionError.
C11_SingleAttemptConnectionError ==
    \A s \in Sessions : LET f == sess[s] IN
        ConnectFailed(f) =>
            /\ f.connAttempts = 1
            /\ f.exc # ""
            /\ f.excType = "ConnectionError"

\* C11 (amended): every get_connection call makes exactly one connection
\* attempt; when it fails the caller gets the driver's own exception,
\* psycopg2.OperationalError, re-raised unchanged, and no handle is given
\* out.
C11_SingleAttemptDriverError ==
    \A s \in Sessions : LET f == sess[s] IN
        /\ f.pc # "idle" => f.connAttempts = 1
        /\ ConnectFailed(f) =>
              /\ f.excType = "OperationalError"
              /\ f.exc = "OperationalError: could not connect"
              /\ f.ret = ErrorEnvelope(f.exc)
              /\ f.closeCalls = 0

\* C11 witness: a call whose get_connection raised has reached finally with
\* the driver's exception caught by the caller
C11_Witness ==
    \E s \in Sessions : LET f == sess[s] IN
        /\ f.pc = "finally" /\ f.conn = ConnNone /\ f.connAttempts = 1
        /\ f.excType = "OperationalError"
        /\ f.ret.status = "error"

\* C12: the schema bootstrap run against a store where employees and
\* employee_skills already exist, with the store reachable and nothing
\* failing around it, completes without error and leaves the schema as it
\* was (so any number of runs gives the schema of one run).
C12_BootstrapIdempotent ==
    (boot.script # "" /\ boot.existed /\ boot.fault = "none") =>
        /\ boot.error = ""
        /\ boot.outcome = "returned"
        /\ schema # "none"

\* C13: a bootstrap run in which something failed (the connection, or a
\* CREATE TABLE) ends in a failure its caller sees, not in a normal return.
C13_BootstrapFailureVisible ==
    (boot.script # "" /\ boot.error # "") => boot.outcome = "raised"

\* C14: when a store credential is missing from the configuration at process
\* start, initialization fails before any chat turn is handled: the
\* application never gets as far as the chat interface, no prompt is taken
\* and no run_sql_query call is made that could fail for it.
C14_MissingCredentialsFatalAtStart ==
    config = "missing" =>
        /\ app.init # "ok"
        /\ app.history = <<>>
        /\ \A s \in Sessions : sess[s].pc = "idle"

\* C15: for a session that exists, run_adk_async returns a string and lets
\* no failure of the agent run out: when runner.run_async raised, gave a
\* final response without text, or ended without a final response, the
\* string returned is the apology or one of the placeholders, and the chat
\* interface is ready for the next prompt.
C15_AlwaysAString ==
    (app.run.outcome # "" /\ app.run.session) =>
        /\ app.run.outcome = "returned"
        /\ app.run.ev = "raises" => app.run.value = Apology
        /\ app.run.ev \in {"no_content", "text_none"} => app.run.value = NoTextOutput
        /\ app.run.ev = "no_final" => app.run.value = NoFinalResponse
        /\ app.turn = "idle"

\* C16: on a store set up by the schema bootstrap, whatever run_sql_query
\* calls were made, every employee_skills row references exactly one
\* existing employee: its employee_id is not null and is the id of a row of
\* employees.
C16_SkillHasItsEmployee ==
    \A i \in DOMAIN skills :
        /\ skills[i].employee_id # NullId
        /\ skills[i].employee_id \in EmpIds(employees)

\* C17: whenever initialize_adk has returned normally the runner's session
\* service holds a session under the returned id, so no run_adk_async that
\* follows answers "Error: ADK session not found. Please refresh the page.".
C17_SessionAfterInit ==
    /\ app.init = "ok" => (app.cached /\ app.hasId /\ app.session)
    /\ app.run.value # SessionNotFound

RowsChange == employees' # employees \/ skills' # skills

\* C18: an invocation in which execute or commit (or anything else inside
\* the try block) failed has committed nothing and has closed its
\* connection when it is over, and no step of such an invocation changes a
\* row: rows change only in the step in which some invocation's commit
\* returns, so after the failed call the store holds the rows it held
\* before it.
C18_FailedCallLeavesRows ==
    /\ [](\A s \in Sessions : LET f == sess[s] IN
            f.exc # "" =>
               /\ ~f.committed
               /\ (f.pc = "done" /\ f.conn > 0) => (f.closeCalls = 1 /\ f.conn \notin open))
    /\ [][RowsChange =>
            \E s \in Sessions :
                /\ sess[s].pc = "commit" /\ sess'[s].pc = "finally"
                /\ sess'[s].exc = "" /\ sess'[s].committed]_vars

\* C18 witness: an INSERT whose commit failed is over, its connection
\* closed, and no row of that name is in the store
C18_Witness ==
    \E s \in Sessions : LET f == sess[s] IN
        /\ f.pc = "done" /\ f.query.op = "InsEmp"
        /\ f.exc = "OperationalError: commit" /\ f.ret.status = "error"
        /\ f.closeCalls = 1 /\ open = {}
        /\ IdsNamed(f.query.name) = {}

\* C19: run_sql_query calls commit exactly once when execute succeeded and
\* the statement has no column description, and never otherwise; a call
\* that returns a results envelope has committed nothing, so the rows in the
\* store change only in the commit of a statement without description: a
\* row inserted and returned by INSERT ... RETURNING is not in the store
\* when the call is over.
C19_CommitOnlyWithoutDescription ==
    /\ [](\A s \in Sessions : LET f == sess[s] IN
            /\ f.commitCalls = IF AtExit(f) /\ f.executed /\ ~f.cur.hasDesc THEN 1 ELSE 0
            /\ (AtExit(f) /\ f.ret.status = "success" /\ f.cur.hasDesc) =>
                  /\ ~f.committed
                  /\ (f.pc = "done" /\ f.query.op = "InsEmpRet") =>
                        \A i \in DOMAIN f.cur.rows : f.cur.rows[i][1].n \notin EmpIds(employees))
    /\ [][RowsChange =>
            \E s \in Sessions :
                /\ sess[s].commitCalls = 0 /\ sess'[s].commitCalls = 1
                /\ sess[s].executed /\ ~sess[s].cur.hasDesc]_vars

\* C19 witness: INSERT ... RETURNING id came back with the new id in a
\* results envelope, no commit was called and the row is not in the store
C19_Witness ==
    \E s \in Sessions : LET f == sess[s] IN
        /\ f.pc = "done" /\ f.outcome = "returned" /\ f.query.op = "InsEmpRet"
        /\ f.ret.status = "success" /\ Len(f.ret.results) = 1
        /\ f.commitCalls = 0
        /\ IdsNamed(f.query.name) = {}

=============================================================================
